---- MODULE Spec2Model ----
(***************************************************************************)
(* Model of pkg/operator/apiserver/controller/workload/workload.go:        *)
(* the workload Controller's sync pass (management-state gate,             *)
(* precondition gate, delegate sync, status-condition derivation, version  *)
(* gate, status write).                                                    *)
(*                                                                         *)
(* Strings built with fmt.Sprintf / concatenation are sequences of string  *)
(* tokens (the empty string is << >>); numbers are formatted with          *)
(* ToString, as %d / %v format them.                                       *)
(***************************************************************************)
EXTENDS Integers, Sequences, FiniteSets, TLC

\* ---------------------------------------------------------------- bounds
MaxReplicas == 3
MaxGen == 2
MaxErrs == 1
MaxNodes == 3
NumPasses == 2

\* ------------------------------------------------------- fixed vocabulary
Nil == "<nil>"                       \* a nil error interface value
ErrTexts == {"e1"}                   \* texts of the non-nil errors collaborators return
GetStateErr == "get-operator-state-failed"
DeleteErr == "namespace-delete-failed"
UpdateErr == "status-update-failed"
ListPodsErr == "pods-list-failed"

TargetNamespace == "target-ns"
WorkloadName == "apiserver"
TargetOperandVersion == "v2"
NoVersion == "<unset>"

ManagementStates == {"Managed", "Unmanaged", "Removed", "Force"}
NoState == "<unread>"                \* no operator spec has been read

AvailableType == "DeploymentAvailable"
DegradedType == "DeploymentDegraded"
ProgressingType == "DeploymentProgressing"
WorkloadDegradedType == "WorkloadDegraded"
ConditionTypes == {AvailableType, DegradedType, ProgressingType, WorkloadDegradedType}

\* ------------------------------------------------------------- the inputs
Unset == -1                          \* Spec.Replicas == nil
NilWorkload ==
    [present |-> FALSE, generation |-> 0, observedGeneration |-> 0,
     replicas |-> Unset, availableReplicas |-> 0, updatedReplicas |-> 0]

\* Deployments the delegate can hand back: the observed generation never runs
\* ahead of the generation, and a rollout may surge one replica above the
\* largest desired count.
Workloads ==
    { w \in [present : {TRUE}, generation : 1..MaxGen, observedGeneration : 1..MaxGen,
             replicas : {Unset} \cup (0..MaxReplicas),
             availableReplicas : 0..(MaxReplicas + 1),
             updatedReplicas : 0..MaxReplicas] :
        w.observedGeneration <= w.generation }

RECURSIVE SeqsUpTo(_, _)
SeqsUpTo(S, n) ==
    IF n = 0 THEN { << >> }
    ELSE LET shorter == SeqsUpTo(S, n - 1)
         IN  shorter \cup { Append(s, e) : s \in shorter, e \in S }

ErrLists == SeqsUpTo(ErrTexts, MaxErrs)

\* ------------------------------------------------------------------ state
VARIABLES
    conditions,      \* stored operator status: the set of conditions
    version,         \* versionRecorder: version recorded for <operandNamePrefix>-<workload name>
    pc,              \* position of the pass
    managementState, \* operatorSpec.ManagementState read by this pass
    deleteOutcome,   \* outcome of the namespace delete: "none" | "ok" | "notfound" | "err"
    precondition,    \* what PreconditionFulfilled returned to this pass
    workload, operatorConfigAtHighestGeneration, preconditionsReady, errs,
                     \* the arguments of updateOperatorStatus
    podStatus,       \* outcome of deployment.PodContainersStatus: "none" | "ok" | "err"
    updateArgs,      \* the mutators handed to v1helpers.UpdateStatus: the conditions to set
                     \* and the deployment generation to record (0: no generation setter)
    updateOutcome,   \* "none" | "ok" | "err"
    calls,           \* calls to collaborators made by this pass
    ret              \* what sync returned (or that it panicked)

\* State of the other parts of the file, each exercised by a specification of
\* its own and idle in the others.
VARIABLES
    settled,         \* the delegate has reached a state in which it reports a healthy workload
    aaPc, aaComponent, aaGiven, aaSpec, aaRet,
                     \* a call of EnsureAtMostOnePodPerNode: position, component argument,
                     \* the deployment spec as given, the spec as it is now, the result
    nodes, cnPc, cnSelector, cnListed, cnRet,
                     \* the cluster's nodes, and a call of the function CountNodesFuncWrapper
                     \* returned: selector, what the lister answered, the result
    cPc, cArgs, cStore, cObserved
                     \* passes running side by side on one status store, and what a
                     \* reader of the store last saw

controllerVars ==
    <<conditions, version, pc, managementState, deleteOutcome, precondition,
      workload, operatorConfigAtHighestGeneration, preconditionsReady, errs,
      podStatus, updateArgs, updateOutcome, calls, ret>>
affinityVars == <<aaPc, aaComponent, aaGiven, aaSpec, aaRet>>
nodeVars == <<nodes, cnPc, cnSelector, cnListed, cnRet>>
concurrentVars == <<cPc, cArgs, cStore, cObserved>>

vars == <<controllerVars, settled, affinityVars, nodeVars, concurrentVars>>

\* What a step of the sync pass leaves alone.
elsewhere == <<settled, affinityVars, nodeVars, concurrentVars>>

stored == <<conditions, version>>

NoCalls ==
    [getState |-> 0, delete |-> 0, warning |-> 0, precondition |-> 0,
     sync |-> 0, setVersion |-> 0, updateStatus |-> 0]

NoPrecondition == [fulfilled |-> TRUE, err |-> Nil]
NoUpdateArgs == [conds |-> {}, generation |-> 0]

RetNone == [kind |-> "none", err |-> Nil, errs |-> << >>]
RetNil == [kind |-> "nil", err |-> Nil, errs |-> << >>]
RetPanic == [kind |-> "panic", err |-> Nil, errs |-> << >>]
RetErr(e) == [kind |-> "error", err |-> e, errs |-> << >>]
RetAggregate(es) == [kind |-> "aggregate", err |-> Nil, errs |-> es]

\* ------------------------------------------------- updateOperatorStatus
\* (variant: the condition starts from the stored condition of that type)
NewConditionFromStored(type, status) ==
    IF \E c \in conditions : c.type = type
    THEN [(CHOOSE c \in conditions : c.type = type) EXCEPT !.status = status]
    ELSE [type |-> type, status |-> status, reason |-> "", message |-> << >>]

\* A condition as the function first builds it: type and status only.
NewCondition(type, status) ==
    [type |-> type, status |-> status, reason |-> "", message |-> << >>]

\* message = message + err.Error() + "\n", for each error in order.
RECURSIVE JoinErrors(_)
JoinErrors(es) ==
    IF es = << >> THEN << >>
    ELSE <<Head(es), "\n">> \o JoinErrors(Tail(es))

\* err.Error() on a nil error value is a nil dereference: the pass panics.
ErrorCallPanics(es) == \E i \in 1..Len(es) : es[i] = Nil

\* kerrors.NewAggregate: nil entries are dropped, an empty list gives nil.
NewAggregate(es) ==
    LET nonNil == SelectSeq(es, LAMBDA e : e # Nil)
    IN  IF nonNil = << >> THEN RetNil ELSE RetAggregate(nonNil)

FallbackMessage == <<"the operator didn't specify what preconditions are missing">>

PreconditionMessage(es) ==
    LET message == JoinErrors(es)
    IN  IF Len(message) = 0 THEN FallbackMessage ELSE message

PreconditionNotFulfilledConditions(es) ==
    { [NewCondition(AvailableType, "True") EXCEPT
          !.status = "False", !.reason = "PreconditionNotFulfilled"],
      [NewCondition(DegradedType, "False") EXCEPT
          !.status = "True", !.reason = "PreconditionNotFulfilled",
          !.message = PreconditionMessage(es)],
      [NewCondition(ProgressingType, "False") EXCEPT
          !.status = "False", !.reason = "PreconditionNotFulfilled"],
      NewCondition(WorkloadDegradedType, "False") }

WorkloadDegradedCondition(es) ==
    IF Len(es) > 0
    THEN [NewCondition(WorkloadDegradedType, "False") EXCEPT
             !.status = "True", !.reason = "SyncError", !.message = JoinErrors(es)]
    ELSE [NewCondition(WorkloadDegradedType, "False") EXCEPT !.status = "False"]

NoDeploymentMessage == <<"deployment/", TargetNamespace, ": could not be retrieved">>

\* (variant: a missing deployment is reported as not progressing)
NoDeploymentConditionsNotProgressing ==
    { [NewCondition(AvailableType, "True") EXCEPT
          !.status = "False", !.reason = "NoDeployment", !.message = NoDeploymentMessage],
      [NewCondition(ProgressingType, "False") EXCEPT
          !.reason = "NoDeployment", !.message = NoDeploymentMessage],
      [NewCondition(DegradedType, "False") EXCEPT
          !.status = "True", !.reason = "NoDeployment", !.message = NoDeploymentMessage] }

NoDeploymentConditions ==
    { [NewCondition(AvailableType, "True") EXCEPT
          !.status = "False", !.reason = "NoDeployment", !.message = NoDeploymentMessage],
      [NewCondition(ProgressingType, "False") EXCEPT
          !.status = "True", !.reason = "NoDeployment", !.message = NoDeploymentMessage],
      [NewCondition(DegradedType, "False") EXCEPT
          !.status = "True", !.reason = "NoDeployment", !.message = NoDeploymentMessage] }

\* (variant: available only when every desired replica is)
DeploymentAvailableConditionWhenComplete(w) ==
    IF w.availableReplicas = 0 \/ w.availableReplicas < (IF w.replicas # Unset THEN w.replicas ELSE 1)
    THEN [NewCondition(AvailableType, "True") EXCEPT
             !.status = "False", !.reason = "NoPod",
             !.message = <<"no ", WorkloadName, ".", TargetNamespace,
                           " pods available on any node.">>]
    ELSE [NewCondition(AvailableType, "True") EXCEPT
             !.status = "True", !.reason = "AsExpected"]

DeploymentAvailableCondition(w) ==
    IF w.availableReplicas = 0
    THEN [NewCondition(AvailableType, "True") EXCEPT
             !.status = "False", !.reason = "NoPod",
             !.message = <<"no ", WorkloadName, ".", TargetNamespace,
                           " pods available on any node.">>]
    ELSE [NewCondition(AvailableType, "True") EXCEPT
             !.status = "True", !.reason = "AsExpected"]

WorkloadAtHighestGeneration(w) == w.generation = w.observedGeneration

\* (variant: a deployment short on updated replicas also counts as progressing)
DeploymentProgressingConditionOrRollingOut(w) ==
    IF ~WorkloadAtHighestGeneration(w)
       \/ w.updatedReplicas < (IF w.replicas # Unset THEN w.replicas ELSE 1)
    THEN [NewCondition(ProgressingType, "False") EXCEPT
             !.status = "True", !.reason = "NewGeneration",
             !.message = <<"deployment/", WorkloadName, ".", TargetNamespace,
                           ": observed generation is ", ToString(w.observedGeneration),
                           ", desired generation is ", ToString(w.generation), ".">>]
    ELSE [NewCondition(ProgressingType, "False") EXCEPT
             !.status = "False", !.reason = "AsExpected"]

DeploymentProgressingCondition(w) ==
    IF ~WorkloadAtHighestGeneration(w)
    THEN [NewCondition(ProgressingType, "False") EXCEPT
             !.status = "True", !.reason = "NewGeneration",
             !.message = <<"deployment/", WorkloadName, ".", TargetNamespace,
                           ": observed generation is ", ToString(w.observedGeneration),
                           ", desired generation is ", ToString(w.generation), ".">>]
    ELSE [NewCondition(ProgressingType, "False") EXCEPT
             !.status = "False", !.reason = "AsExpected"]

DesiredReplicas(w) == IF w.replicas # Unset THEN w.replicas ELSE 1

\* (variant: surge is not tolerated)
WorkloadHasAllPodsAvailableExactly(w) == w.availableReplicas = DesiredReplicas(w)

WorkloadHasAllPodsAvailable(w) == w.availableReplicas >= DesiredReplicas(w)

\* strings.Join(podContainersStatus, ", "), or the inline note when listing the pods failed.
PodContainersStatusText(ps) ==
    IF ps = "err"
    THEN <<"failed to get pod containers details: ", ListPodsErr>>
    ELSE <<"container is waiting in pod ", WorkloadName, "-1">>

DeploymentDegradedCondition(w, ps) ==
    IF ~WorkloadHasAllPodsAvailable(w)
    THEN LET numNonAvailablePods == DesiredReplicas(w) - w.availableReplicas
         IN  [NewCondition(DegradedType, "False") EXCEPT
                 !.status = "True", !.reason = "UnavailablePod",
                 !.message = <<ToString(numNonAvailablePods), " of ",
                               ToString(DesiredReplicas(w)),
                               " requested instances are unavailable for ",
                               WorkloadName, ".", TargetNamespace, " (">>
                             \o PodContainersStatusText(ps) \o <<")">>]
    ELSE [NewCondition(DegradedType, "False") EXCEPT
             !.status = "False", !.reason = "AsExpected"]

\* (variant: the replica field is compared as it is, unset or not)
WorkloadHasAllPodsUpdatedNoDefault(w) == w.updatedReplicas = w.replicas

WorkloadHasAllPodsUpdated(w) == w.updatedReplicas = DesiredReplicas(w)

\* (variant: the delegate's config generation is not consulted)
VersionGateWithoutConfig(w, configAtHighestGeneration) ==
    /\ WorkloadAtHighestGeneration(w)
    /\ WorkloadHasAllPodsAvailable(w)
    /\ WorkloadHasAllPodsUpdated(w)

VersionGate(w, configAtHighestGeneration) ==
    /\ WorkloadAtHighestGeneration(w)
    /\ WorkloadHasAllPodsAvailable(w)
    /\ WorkloadHasAllPodsUpdated(w)
    /\ configAtHighestGeneration

\* Whether updateOperatorStatus calls SetVersion for these arguments: the block is
\* reached only in normal mode with a deployment, and reads neither the error
\* list nor the result of the status update, which comes after it.
\* (variant: the version is set only by a pass without sync errors)
SetsVersionUnlessErrors(w, configAtHighestGeneration, ready, es) ==
    ready /\ w.present /\ VersionGate(w, configAtHighestGeneration) /\ Len(es) = 0

SetsVersion(w, configAtHighestGeneration, ready, es) ==
    ready /\ w.present /\ VersionGate(w, configAtHighestGeneration)

\* (variant: sync errors end the evaluation as if no deployment was returned)
StatusUpdateStoppingOnErrors(w, ready, es, ps) ==
    IF ~ready
    THEN [conds |-> PreconditionNotFulfilledConditions(es), generation |-> 0]
    ELSE IF ~w.present \/ Len(es) > 0
    THEN [conds |-> NoDeploymentConditions \cup {WorkloadDegradedCondition(es)},
          generation |-> 0]
    ELSE [conds |-> { DeploymentAvailableCondition(w),
                      DeploymentDegradedCondition(w, ps),
                      DeploymentProgressingCondition(w),
                      WorkloadDegradedCondition(es) },
          generation |-> w.generation]

\* The condition setters (and the generation setter) of the one UpdateStatus call
\* the function makes for these arguments.
StatusUpdate(w, ready, es, ps) ==
    IF ~ready
    THEN [conds |-> PreconditionNotFulfilledConditions(es), generation |-> 0]
    ELSE IF ~w.present
    THEN [conds |-> NoDeploymentConditions \cup {WorkloadDegradedCondition(es)},
          generation |-> 0]
    ELSE [conds |-> { DeploymentAvailableCondition(w),
                      DeploymentDegradedCondition(w, ps),
                      DeploymentProgressingCondition(w),
                      WorkloadDegradedCondition(es) },
          generation |-> w.generation]

\* (variant: collected errors are returned ahead of the update error)
UpdateOperatorStatusResultErrsFirst(w, ready, es, outcome) ==
    IF Len(es) > 0 THEN NewAggregate(es)
    ELSE IF outcome = "err" THEN RetErr(UpdateErr)
    ELSE RetNil

\* What updateOperatorStatus returns once UpdateStatus has returned.
UpdateOperatorStatusResult(w, ready, es, outcome) ==
    IF outcome = "err" THEN RetErr(UpdateErr)
    ELSE IF ~ready \/ ~w.present THEN NewAggregate(es)
    ELSE IF Len(es) > 0 THEN NewAggregate(es)
    ELSE RetNil

\* v1helpers.UpdateStatus applying the UpdateConditionFn setters: each condition
\* replaces the stored condition of its type (status, reason, message), or is
\* added when there is none; the other stored conditions are kept.
UpdateConditionFns(storedConds, cs) ==
    { d \in storedConds : \A c \in cs : d.type # c.type } \cup cs

\* ---------------------------------------------------------------- actions
AffinityIdle ==
    /\ aaPc = "idle"
    /\ aaComponent = << >>
    /\ aaGiven = << >>
    /\ aaSpec = << >>
    /\ aaRet = "none"

NoListing == [items |-> {}, err |-> Nil]
NoCount == [hasCount |-> FALSE, count |-> 0, err |-> Nil]

NodesIdle ==
    /\ nodes = {}
    /\ cnPc = "idle"
    /\ cnSelector = {}
    /\ cnListed = NoListing
    /\ cnRet = NoCount

ConcurrentIdle ==
    /\ cPc = << >>
    /\ cArgs = << >>
    /\ cStore = {}
    /\ cObserved = {}

ControllerIdle ==
    /\ conditions = {}
    /\ version = NoVersion
    /\ pc = "start"
    /\ managementState = NoState
    /\ deleteOutcome = "none"
    /\ precondition = NoPrecondition
    /\ workload = NilWorkload
    /\ operatorConfigAtHighestGeneration = FALSE
    /\ preconditionsReady = FALSE
    /\ errs = << >>
    /\ podStatus = "none"
    /\ updateArgs = NoUpdateArgs
    /\ updateOutcome = "none"
    /\ calls = NoCalls
    /\ ret = RetNone

Init ==
    /\ ControllerIdle
    /\ settled = FALSE
    /\ AffinityIdle
    /\ NodesIdle
    /\ ConcurrentIdle

\* sync, line 116: a new pass starts and reads the operator spec.
GetOperatorState ==
    /\ pc \in {"start", "done"}
    /\ deleteOutcome' = "none"
    /\ precondition' = NoPrecondition
    /\ workload' = NilWorkload
    /\ operatorConfigAtHighestGeneration' = FALSE
    /\ preconditionsReady' = FALSE
    /\ errs' = << >>
    /\ podStatus' = "none"
    /\ updateArgs' = NoUpdateArgs
    /\ updateOutcome' = "none"
    /\ calls' = [NoCalls EXCEPT !.getState = 1]
    /\ \/ /\ managementState' = NoState
          /\ pc' = "done"
          /\ ret' = RetErr(GetStateErr)
       \/ /\ managementState' \in ManagementStates
          /\ pc' = "shouldSync"
          /\ ret' = RetNone
    /\ UNCHANGED <<stored, elsewhere>>

\* The outcome of shouldSync for a management state and, for Removed, the
\* outcome of the namespace delete ("ok", "notfound" or "err").
\* (variant: only Unmanaged and Removed stop the pass)
ShouldSyncRunUnlessStopped(ms) == ms \notin {"Unmanaged", "Removed"}

ShouldSyncRun(ms) == ms = "Managed"

\* (variant: a namespace that is already gone fails the pass)
ShouldSyncResultNotFoundFails(ms, deleted) ==
    IF ms = "Removed" /\ deleted \in {"err", "notfound"} THEN RetErr(DeleteErr) ELSE RetNil

ShouldSyncResult(ms, deleted) ==
    IF ms = "Removed" /\ deleted = "err" THEN RetErr(DeleteErr) ELSE RetNil

ShouldSyncDeletes(ms) == ms = "Removed"

ShouldSyncWarns(ms) == ms \notin {"Managed", "Unmanaged", "Removed"}

\* sync, lines 121-123, and shouldSync.
ShouldSync ==
    /\ pc = "shouldSync"
    /\ \E deleted \in (IF ShouldSyncDeletes(managementState)
                       THEN {"ok", "notfound", "err"} ELSE {"none"}) :
          /\ deleteOutcome' = deleted
          /\ calls' = [calls EXCEPT
                          !.delete = @ + (IF ShouldSyncDeletes(managementState) THEN 1 ELSE 0),
                          !.warning = @ + (IF ShouldSyncWarns(managementState) THEN 1 ELSE 0)]
          /\ IF ShouldSyncRun(managementState)
             THEN pc' = "precondition" /\ ret' = ret
             ELSE pc' = "done" /\ ret' = ShouldSyncResult(managementState, deleted)
    /\ UNCHANGED <<stored, managementState, precondition, workload,
                   operatorConfigAtHighestGeneration, preconditionsReady, errs,
                   podStatus, updateArgs, updateOutcome, elsewhere>>

\* Outcomes deployment.PodContainersStatus can have for these arguments: it is
\* called only when pods are missing.
PodStatusOutcomes(w, ready) ==
    IF ready /\ w.present /\ ~WorkloadHasAllPodsAvailable(w)
    THEN {"ok", "err"} ELSE {"none"}

\* updateOperatorStatus from its entry to the UpdateStatus call: the conditions
\* are derived and the version is set; a nil entry of errs panics the pass.
UpdateOperatorStatus(made, w, configAtHighestGeneration, ready, es, ps) ==
    /\ workload' = w
    /\ operatorConfigAtHighestGeneration' = configAtHighestGeneration
    /\ preconditionsReady' = ready
    /\ errs' = es
    /\ IF ErrorCallPanics(es)
       THEN /\ pc' = "done"
            /\ ret' = RetPanic
            /\ podStatus' = "none"
            /\ updateArgs' = updateArgs
            /\ version' = version
            /\ calls' = made
       ELSE /\ pc' = "updateStatus"
            /\ ret' = ret
            /\ podStatus' = ps
            /\ updateArgs' = StatusUpdate(w, ready, es, ps)
            /\ LET gate == SetsVersion(w, configAtHighestGeneration, ready, es)
               IN  /\ version' = IF gate THEN TargetOperandVersion ELSE version
                   /\ calls' = [made EXCEPT !.setVersion = @ + (IF gate THEN 1 ELSE 0)]
    /\ UNCHANGED <<conditions, managementState, deleteOutcome, updateOutcome, elsewhere>>

\* sync, lines 125-127: Delegate.PreconditionFulfilled.
PreconditionFulfilled ==
    /\ pc = "precondition"
    /\ \E fulfilled \in BOOLEAN, err \in {Nil} \cup ErrTexts :
          /\ precondition' = [fulfilled |-> fulfilled, err |-> err]
          /\ IF ~fulfilled \/ err # Nil
             THEN UpdateOperatorStatus([calls EXCEPT !.precondition = @ + 1],
                                       NilWorkload, FALSE, FALSE, <<err>>, "none")
             ELSE /\ pc' = "delegateSync"
                  /\ calls' = [calls EXCEPT !.precondition = @ + 1]
                  /\ UNCHANGED <<stored, managementState, deleteOutcome, workload,
                                 operatorConfigAtHighestGeneration, preconditionsReady,
                                 errs, podStatus, updateArgs, updateOutcome, ret, elsewhere>>

\* sync, lines 129-131: Delegate.Sync, then updateOperatorStatus.
DelegateSync ==
    /\ pc = "delegateSync"
    /\ \E w \in Workloads \cup {NilWorkload}, configAtHighestGeneration \in BOOLEAN,
          es \in ErrLists :
          \E ps \in PodStatusOutcomes(w, TRUE) :
             UpdateOperatorStatus([calls EXCEPT !.sync = @ + 1],
                                  w, configAtHighestGeneration, TRUE, es, ps)
    /\ UNCHANGED precondition

\* The v1helpers.UpdateStatus call of updateOperatorStatus, and the return: the
\* deployment, the flag and the pod details are locals that end with the call;
\* what was handed to UpdateStatus, the error list and the result stay on record.
UpdateStatus ==
    /\ pc = "updateStatus"
    /\ \E outcome \in {"ok", "err"} :
          /\ updateOutcome' = outcome
          /\ calls' = [calls EXCEPT !.updateStatus = @ + 1]
          /\ conditions' = IF outcome = "ok"
                            THEN UpdateConditionFns(conditions, updateArgs.conds)
                            ELSE conditions
          /\ ret' = UpdateOperatorStatusResult(workload, preconditionsReady, errs, outcome)
    /\ pc' = "done"
    /\ workload' = NilWorkload
    /\ operatorConfigAtHighestGeneration' = FALSE
    /\ podStatus' = "none"
    /\ UNCHANGED <<version, managementState, deleteOutcome, precondition,
                   preconditionsReady, errs, updateArgs, elsewhere>>

Next ==
    \/ GetOperatorState
    \/ ShouldSync
    \/ PreconditionFulfilled
    \/ DelegateSync
    \/ UpdateStatus

Spec == Init /\ [][Next]_vars

\* ------------------------------------------ EnsureAtMostOnePodPerNode
\* A Go map is a set of <<key, value>> pairs with one pair per key, and may be
\* nil; a key is a sequence of string tokens, as the strings above are.
MapSet(entries, key, value) ==
    { e \in entries : e[1] # key } \cup { <<key, value>> }

NilMap == [isNil |-> TRUE, entries |-> {}]
MakeMap(entries) == [isNil |-> FALSE, entries |-> entries]

AntiAffinityKey(component) == component \o <<"-anti-affinity">>
AntiAffinityValue == "true"

NoAffinity == [isNil |-> TRUE, nodeAffinity |-> FALSE, required |-> << >>]

\* antiAffinityMatchLabels: the new label, then every selector label assigned
\* over it.
AntiAffinityMatchLabels(component, matchLabels) ==
    { e \in { <<AntiAffinityKey(component), AntiAffinityValue>> } :
         \A l \in matchLabels : l[1] # e[1] } \cup matchLabels

RequiredAntiAffinity(component, matchLabels) ==
    [isNil |-> FALSE, nodeAffinity |-> FALSE,
     required |-> << [topologyKey |-> "kubernetes.io/hostname",
                      matchLabels |-> AntiAffinityMatchLabels(component, matchLabels)] >>]

ComponentErr == "please specify the component name"
SelectorErr == "deployment is missing spec.selector"
MatchLabelsErr == "deployment is missing spec.selector.matchLabels"
AffinityErrors == {ComponentErr, SelectorErr, MatchLabelsErr}

\* The function, statement by statement: the spec it leaves behind and what it
\* returns ("nil", an error, or "panic": assigning into a nil map panics).
EnsureAtMostOnePodPerNode(spec, component) ==
    IF Len(component) = 0 THEN [spec |-> spec, ret |-> ComponentErr]
    ELSE IF spec.templateLabels.isNil THEN [spec |-> spec, ret |-> "panic"]
    ELSE LET labelled ==
                 [spec EXCEPT !.templateLabels.entries =
                     MapSet(@, AntiAffinityKey(component), AntiAffinityValue)]
         IN  IF spec.selector.isNil THEN [spec |-> labelled, ret |-> SelectorErr]
             ELSE IF Cardinality(spec.selector.matchLabels.entries) = 0
             THEN [spec |-> labelled, ret |-> MatchLabelsErr]
             ELSE [spec |-> [labelled EXCEPT !.affinity =
                                RequiredAntiAffinity(component,
                                                     spec.selector.matchLabels.entries)],
                   ret |-> "nil"]

\* The arguments the function is called with.
Components == { << >>, <<"c1">>, <<"c2">> }

AppLabel == << <<"app">>, "apiserver" >>

TemplateLabelMaps ==
    { NilMap, MakeMap({}), MakeMap({AppLabel}),
      MakeMap({AppLabel, <<AntiAffinityKey(<<"c1">>), AntiAffinityValue>>}) }

NilSelector == [isNil |-> TRUE, matchLabels |-> NilMap]

Selectors ==
    { NilSelector }
    \cup { [isNil |-> FALSE, matchLabels |-> m] :
             m \in { NilMap, MakeMap({}), MakeMap({AppLabel}),
                     MakeMap({AppLabel, <<AntiAffinityKey(<<"c1">>), AntiAffinityValue>>}),
                     MakeMap({AppLabel, <<AntiAffinityKey(<<"c1">>), "false">>}) } }

Affinities ==
    { NoAffinity,
      [isNil |-> FALSE, nodeAffinity |-> TRUE, required |-> << >>],
      [isNil |-> FALSE, nodeAffinity |-> FALSE,
       required |-> << [topologyKey |-> "topology.kubernetes.io/zone",
                        matchLabels |-> {AppLabel}] >>] }

DeploymentSpecs ==
    [templateLabels : TemplateLabelMaps, selector : Selectors, affinity : Affinities]

AffinityInit ==
    /\ aaPc = "call"
    /\ aaComponent \in Components
    /\ aaGiven \in DeploymentSpecs
    /\ aaSpec = aaGiven
    /\ aaRet = "none"
    /\ ControllerIdle
    /\ settled = FALSE
    /\ NodesIdle
    /\ ConcurrentIdle

EnsureAtMostOnePodPerNodeCall ==
    /\ aaPc = "call"
    /\ LET out == EnsureAtMostOnePodPerNode(aaSpec, aaComponent)
       IN  /\ aaSpec' = out.spec
           /\ aaRet' = out.ret
           /\ aaPc' = IF out.ret = "panic" THEN "panicked" ELSE "returned"
    /\ UNCHANGED <<aaComponent, aaGiven, controllerVars, settled, nodeVars, concurrentVars>>

AffinityNext == EnsureAtMostOnePodPerNodeCall

AffinitySpec == AffinityInit /\ [][AffinityNext]_vars

\* ------------------------------------------------- CountNodesFuncWrapper
ListNodesErr == "nodes-list-failed"

NodeNames == 1..MaxNodes
RoleLabels == { << <<"role">>, "master" >>, << <<"role">>, "worker" >> }

\* nodeSelector map[string]string: nil or empty selects every node.
NodeSelectors == { {} } \cup { {l} : l \in RoleLabels }

\* labels.SelectorFromSet(nodeSelector) matches a node carrying every pair.
NodeMatches(node, nodeSelector) == nodeSelector \subseteq node.labels

\* nodeLister.List: the matching nodes of the cache as it is now, or an error.
NodeListerList(cache, nodeSelector, outcome) ==
    IF outcome = "ok"
    THEN [items |-> { n \in cache : NodeMatches(n, nodeSelector) }, err |-> Nil]
    ELSE [items |-> {}, err |-> ListNodesErr]

\* int32(len(nodes)): a length beyond the largest int32 wraps around.
MaxInt32 == 2147483647
Int32(n) == IF n <= MaxInt32 THEN n ELSE (n - MaxInt32) - MaxInt32 - 2

CountNodesResultAbsentWhenNone(listed) ==
    IF listed.err # Nil
    THEN [hasCount |-> FALSE, count |-> 0, err |-> listed.err]
    ELSE [hasCount |-> Cardinality(listed.items) > 0,
          count |-> Int32(Cardinality(listed.items)), err |-> Nil]

\* What the returned function gives back for a listing: (nil, err) or
\* (&replicas, nil) with replicas = int32(len(nodes)).
CountNodesResult(listed) ==
    IF listed.err # Nil
    THEN [hasCount |-> FALSE, count |-> 0, err |-> listed.err]
    ELSE [hasCount |-> TRUE, count |-> Int32(Cardinality(listed.items)), err |-> Nil]

NodesInit ==
    /\ nodes = {}
    /\ cnPc = "idle"
    /\ cnSelector = {}
    /\ cnListed = NoListing
    /\ cnRet = NoCount
    /\ ControllerIdle
    /\ settled = FALSE
    /\ AffinityIdle
    /\ ConcurrentIdle

nodesElsewhere == <<controllerVars, settled, affinityVars, concurrentVars>>

\* The cluster changes under the lister's cache at any time.
NodeJoins ==
    /\ \E name \in NodeNames, l \in RoleLabels :
          /\ \A n \in nodes : n.name # name
          /\ nodes' = nodes \cup { [name |-> name, labels |-> {l}] }
    /\ UNCHANGED <<cnPc, cnSelector, cnListed, cnRet, nodesElsewhere>>

NodeLeaves ==
    /\ \E n \in nodes : nodes' = nodes \ {n}
    /\ UNCHANGED <<cnPc, cnSelector, cnListed, cnRet, nodesElsewhere>>

\* A call of the returned function, up to the lister's answer.
CountNodesList ==
    /\ cnPc \in {"idle", "returned"}
    /\ \E nodeSelector \in NodeSelectors, outcome \in {"ok", "err"} :
          /\ cnSelector' = nodeSelector
          /\ cnListed' = NodeListerList(nodes, nodeSelector, outcome)
    /\ cnPc' = "listed"
    /\ UNCHANGED <<nodes, cnRet, nodesElsewhere>>

\* The rest of the call: the value handed back.
CountNodesReturn ==
    /\ cnPc = "listed"
    /\ cnRet' = CountNodesResult(cnListed)
    /\ cnPc' = "returned"
    /\ UNCHANGED <<nodes, cnSelector, cnListed, nodesElsewhere>>

NodesNext ==
    \/ NodeJoins
    \/ NodeLeaves
    \/ CountNodesList
    \/ CountNodesReturn

NodesSpec == NodesInit /\ [][NodesNext]_vars

\* ------------------------------------- passes that are not serialised
Passes == 1..NumPasses

RolledOutWorkload ==
    [present |-> TRUE, generation |-> 1, observedGeneration |-> 1,
     replicas |-> 1, availableReplicas |-> 1, updatedReplicas |-> 1]

\* What a pass may hand to updateOperatorStatus: one case of each branch.
PassInputs ==
    { [w |-> NilWorkload, ready |-> FALSE, es |-> <<"e1">>, ps |-> "none"],
      [w |-> NilWorkload, ready |-> FALSE, es |-> <<Nil>>, ps |-> "none"],
      [w |-> NilWorkload, ready |-> TRUE, es |-> << >>, ps |-> "none"],
      [w |-> RolledOutWorkload, ready |-> TRUE, es |-> << >>, ps |-> "none"],
      [w |-> [RolledOutWorkload EXCEPT !.availableReplicas = 0], ready |-> TRUE,
       es |-> <<"e1">>, ps |-> "ok"] }

\* The conditions of a pass, each marked with the pass that computed it.
WrittenBy(cs, p) ==
    { [type |-> c.type, status |-> c.status, reason |-> c.reason,
       message |-> c.message, writer |-> p] : c \in cs }

\* The v1helpers.UpdateStatus calls updateOperatorStatus makes for its
\* conditions: one per condition.
StatusUpdateCallsOnePerCondition(cs) ==
    << { c \in cs : c.type = AvailableType },
       { c \in cs : c.type = DegradedType },
       { c \in cs : c.type = ProgressingType },
       { c \in cs : c.type = WorkloadDegradedType } >>

\* The v1helpers.UpdateStatus calls updateOperatorStatus makes for its
\* conditions: a single call naming every setter.
StatusUpdateCalls(cs) == << cs >>

ConcurrentInit ==
    /\ cPc = [p \in Passes |-> "start"]
    /\ cArgs = [p \in Passes |-> << >>]
    /\ cStore = {}
    /\ cObserved = {}
    /\ ControllerIdle
    /\ settled = FALSE
    /\ AffinityIdle
    /\ NodesIdle

concurrentElsewhere == <<controllerVars, settled, affinityVars, nodeVars>>

\* Pass p runs up to its status write: the conditions are computed, or the
\* pass panics on a nil error.
PassComputes(p) ==
    /\ cPc[p] = "start"
    /\ \E in \in PassInputs :
          IF ErrorCallPanics(in.es)
          THEN /\ cPc' = [cPc EXCEPT ![p] = "done"]
               /\ cArgs' = cArgs
          ELSE /\ cPc' = [cPc EXCEPT ![p] = "updateStatus"]
               /\ cArgs' = [cArgs EXCEPT ![p] =
                    StatusUpdateCalls(WrittenBy(StatusUpdate(in.w, in.ready, in.es, in.ps).conds, p))]
    /\ UNCHANGED <<cStore, cObserved, concurrentElsewhere>>

\* Pass p makes its next v1helpers.UpdateStatus call: the store applies every
\* setter of the call in one step, or refuses the call and the pass returns.
PassUpdatesStatus(p) ==
    /\ cPc[p] = "updateStatus"
    /\ \E outcome \in {"ok", "err"} :
          IF outcome = "ok"
          THEN /\ cStore' = UpdateConditionFns(cStore, Head(cArgs[p]))
               /\ cArgs' = [cArgs EXCEPT ![p] = Tail(@)]
               /\ cPc' = [cPc EXCEPT ![p] =
                            IF Len(cArgs[p]) = 1 THEN "done" ELSE "updateStatus"]
          ELSE /\ cStore' = cStore
               /\ cArgs' = [cArgs EXCEPT ![p] = << >>]
               /\ cPc' = [cPc EXCEPT ![p] = "done"]
    /\ UNCHANGED <<cObserved, concurrentElsewhere>>

\* A reader gets the status document as it is now.
ReaderGets ==
    /\ cObserved' = cStore
    /\ UNCHANGED <<cPc, cArgs, cStore, concurrentElsewhere>>

PassesCompute == \E p \in Passes : PassComputes(p)
PassesUpdateStatus == \E p \in Passes : PassUpdatesStatus(p)

ConcurrentNext ==
    \/ PassesCompute
    \/ PassesUpdateStatus
    \/ ReaderGets

ConcurrentSpec == ConcurrentInit /\ [][ConcurrentNext]_vars

\* ------------------------------------- passes while the deployment settles
\* Passes triggered one after the other by the work queue, the operator spec
\* Managed, the preconditions fulfilled and the status store accepting every
\* write; the delegate returns what it finds and, once the deployment has
\* settled, always a rolled-out one without errors.
RolledOut(w, configAtHighestGeneration, es) ==
    /\ w.present
    /\ w.generation = w.observedGeneration
    /\ DesiredReplicas(w) >= 1
    /\ w.availableReplicas >= DesiredReplicas(w)
    /\ w.updatedReplicas = DesiredReplicas(w)
    /\ configAtHighestGeneration
    /\ es = << >>

Settles ==
    /\ ~settled
    /\ pc \in {"start", "done"}
    /\ settled' = TRUE
    /\ UNCHANGED <<controllerVars, affinityVars, nodeVars, concurrentVars>>

ManagedGetOperatorState == GetOperatorState /\ managementState' = "Managed"

FulfilledPrecondition ==
    PreconditionFulfilled /\ precondition' = [fulfilled |-> TRUE, err |-> Nil]

\* What the delegate finds while the rollout is under way: no deployment, or
\* a deployment short of the rolled-out one in one respect.
UnsettledWorkloads ==
    { NilWorkload,
      RolledOutWorkload,
      [RolledOutWorkload EXCEPT !.availableReplicas = 0],
      [RolledOutWorkload EXCEPT !.updatedReplicas = 0],
      [RolledOutWorkload EXCEPT !.generation = 2],
      [RolledOutWorkload EXCEPT !.replicas = Unset, !.availableReplicas = 2],
      [RolledOutWorkload EXCEPT !.replicas = 2] }

SettlingDelegateSync ==
    /\ DelegateSync
    /\ IF settled
       THEN RolledOut(workload', operatorConfigAtHighestGeneration', errs')
       ELSE workload' \in UnsettledWorkloads

AcceptedUpdateStatus == UpdateStatus /\ updateOutcome' = "ok"

SettlingNext ==
    \/ Settles
    \/ ManagedGetOperatorState
    \/ ShouldSync
    \/ FulfilledPrecondition
    \/ SettlingDelegateSync
    \/ AcceptedUpdateStatus

\* The queue keeps triggering passes and every call of a pass returns: a pass
\* is sequential, so at most one of its steps is enabled at a time.
SettlingPass ==
    \/ ManagedGetOperatorState
    \/ ShouldSync
    \/ FulfilledPrecondition
    \/ SettlingDelegateSync
    \/ AcceptedUpdateStatus

SettlingFairness == WF_vars(SettlingPass)

SettlingSpec == Init /\ [][SettlingNext]_vars /\ SettlingFairness

\* ----------------------------------------------------------------- claims
\* The condition of a type among those handed to UpdateStatus by this pass.
Written(type) == CHOOSE c \in updateArgs.conds : c.type = type

HasWritten(type) == \E c \in updateArgs.conds : c.type = type

\* updateOperatorStatus has derived the conditions of a normal-mode pass whose
\* delegate returned a deployment, and is about to write them.
NormalModePresent == pc = "updateStatus" /\ preconditionsReady /\ workload.present

\* C1: in normal mode with a deployment present, the Degraded condition handed to
\* the status update is False/AsExpected exactly when availableReplicas >=
\* desiredReplicas (1 when the replica field is unset), surge included; otherwise
\* it is True/UnavailablePod and its message starts with the shortfall
\* desiredReplicas - availableReplicas "of" desiredReplicas.
C1_DegradedIffShortOfDesired ==
    NormalModePresent =>
        LET desired == IF workload.replicas = Unset THEN 1 ELSE workload.replicas
            d == Written(DegradedType)
        IN  /\ HasWritten(DegradedType)
            /\ (workload.availableReplicas >= desired)
                   <=> (d.status = "False" /\ d.reason = "AsExpected")
            /\ (workload.availableReplicas < desired)
                   <=> (/\ d.status = "True"
                        /\ d.reason = "UnavailablePod"
                        /\ SubSeq(d.message, 1, 3) =
                              <<ToString(desired - workload.availableReplicas), " of ",
                                ToString(desired)>>)

C1_Witness ==
    /\ NormalModePresent
    /\ workload.replicas = 3
    /\ workload.availableReplicas = 4
    /\ Written(DegradedType).status = "False"

\* C2: a pass calls SetVersion (once, with the target version) exactly when it is
\* a normal-mode pass of a Managed operator whose delegate returned a deployment
\* with generation = observedGeneration, availableReplicas >= desiredReplicas,
\* updatedReplicas = desiredReplicas, and the delegate's config at its highest
\* generation; a pass in precondition-failure mode, with no deployment, or with a
\* management state other than Managed never calls it.
C2_VersionGateIffAllFour ==
    /\ calls.setVersion \in {0, 1}
    /\ calls.setVersion = 1 =>
          /\ version = TargetOperandVersion
          /\ managementState = "Managed"
          /\ calls.sync = 1
          /\ preconditionsReady
          /\ updateArgs.generation # 0
    /\ pc = "updateStatus" =>
          LET desired == IF workload.replicas = Unset THEN 1 ELSE workload.replicas
          IN  (calls.setVersion = 1) <=>
                 /\ preconditionsReady
                 /\ workload.present
                 /\ workload.generation = workload.observedGeneration
                 /\ workload.availableReplicas >= desired
                 /\ workload.updatedReplicas = desired
                 /\ operatorConfigAtHighestGeneration

C2_Witness ==
    /\ pc = "updateStatus"
    /\ calls.setVersion = 1
    /\ version = TargetOperandVersion
    /\ workload.replicas = 3
    /\ workload.availableReplicas = 4

\* C3: a Managed pass whose PreconditionFulfilled returned (false, nil) ends with
\* one status write of Degraded=True/PreconditionNotFulfilled with the fallback
\* message, Available=False and Progressing=False, without calling the delegate's
\* Sync, and returns nil when the write succeeds.
C3_UnfulfilledWithoutErrorIsSoftStop ==
    (/\ pc = "done"
     /\ calls.precondition = 1
     /\ ~precondition.fulfilled
     /\ precondition.err = Nil)
    => /\ calls.updateStatus = 1
       /\ calls.sync = 0
       /\ HasWritten(DegradedType)
       /\ Written(DegradedType).status = "True"
       /\ Written(DegradedType).reason = "PreconditionNotFulfilled"
       /\ Written(DegradedType).message = FallbackMessage
       /\ Written(AvailableType).status = "False"
       /\ Written(ProgressingType).status = "False"
       /\ ret.kind # "panic"
       /\ updateOutcome = "ok" => ret = RetNil

\* C4: in normal mode with no deployment returned, whatever the error list and
\* the config flag, the step that follows is the one status update; it carries
\* Available=False, Progressing=True and Degraded=True, all with reason
\* NoDeployment and one shared message, together with the WorkloadDegraded
\* condition, and nothing else: no generation setter, and the version is not set.
C4_AbsentDeploymentCall ==
    /\ { c.type : c \in updateArgs.conds } = ConditionTypes
    /\ Cardinality(updateArgs.conds) = 4
    /\ Written(AvailableType).status = "False"
    /\ Written(ProgressingType).status = "True"
    /\ Written(DegradedType).status = "True"
    /\ \A t \in {AvailableType, ProgressingType, DegradedType} :
          /\ Written(t).reason = "NoDeployment"
          /\ Written(t).message = Written(AvailableType).message
          /\ Written(t).message # << >>
    /\ Written(WorkloadDegradedType).status = (IF Len(errs) > 0 THEN "True" ELSE "False")
    /\ updateArgs.generation = 0
    /\ calls.setVersion = 0 /\ calls.updateStatus = 0
    /\ pc' = "done"
    /\ calls' = [calls EXCEPT !.updateStatus = 1]
    /\ updateArgs' = updateArgs
    /\ version' = version
    /\ conditions' \in {conditions, UpdateConditionFns(conditions, updateArgs.conds)}
    /\ updateOutcome' = "ok" => updateArgs.conds \subseteq conditions'

C4_AbsentDeployment ==
    [][ (pc = "updateStatus" /\ preconditionsReady /\ ~workload.present)
           => C4_AbsentDeploymentCall ]_vars

C4_Witness ==
    /\ pc = "done"
    /\ calls.sync = 1
    /\ updateArgs.generation = 0
    /\ updateOutcome = "ok"
    /\ Len(errs) > 0
    /\ Written(ProgressingType).reason = "NoDeployment"
    /\ Written(ProgressingType) \in conditions

\* C5: a pass whose PreconditionFulfilled reported unfulfilled or returned an
\* error does not call the delegate's Sync and makes one status write with
\* Degraded=True, Available=False, Progressing=False (reason
\* PreconditionNotFulfilled, the Degraded message built from the error texts) and
\* WorkloadDegraded=False; when the write succeeds it returns the aggregate of the
\* precondition errors.
C5_PreconditionFailureWrite ==
    (/\ pc = "done"
     /\ calls.precondition = 1
     /\ (~precondition.fulfilled \/ precondition.err # Nil))
    => /\ calls.sync = 0
       /\ calls.updateStatus = 1
       /\ { c.type : c \in updateArgs.conds } = ConditionTypes
       /\ Written(DegradedType).status = "True"
       /\ Written(DegradedType).reason = "PreconditionNotFulfilled"
       /\ Written(DegradedType).message =
             (IF precondition.err = Nil THEN FallbackMessage
                                        ELSE <<precondition.err, "\n">>)
       /\ Written(AvailableType).status = "False"
       /\ Written(AvailableType).reason = "PreconditionNotFulfilled"
       /\ Written(ProgressingType).status = "False"
       /\ Written(ProgressingType).reason = "PreconditionNotFulfilled"
       /\ Written(WorkloadDegradedType).status = "False"
       /\ updateOutcome = "ok" =>
             ret = (IF precondition.err = Nil THEN RetNil
                                              ELSE RetAggregate(<<precondition.err>>))

\* C6: every pass of a Managed operator that asked the delegate for its
\* precondition calls the status update exactly once, and that call sets each of
\* the four condition types once, with status True or False.
C6_ExactlyOneStatusWrite ==
    (pc = "done" /\ calls.precondition = 1)
    => /\ calls.updateStatus = 1
       /\ { c.type : c \in updateArgs.conds } = ConditionTypes
       /\ Cardinality(updateArgs.conds) = 4
       /\ \A c \in updateArgs.conds : c.status \in {"True", "False"}

\* C7: when the status update call fails, the pass returns the status-update
\* error and nothing else, whatever precondition or delegate errors it collected.
C7_UpdateErrorSupersedes ==
    (pc = "done" /\ updateOutcome = "err")
    => /\ calls.updateStatus = 1
       /\ ret = RetErr(UpdateErr)

C7_Witness ==
    /\ pc = "done"
    /\ updateOutcome = "err"
    /\ preconditionsReady
    /\ updateArgs.generation # 0
    /\ Len(errs) > 0
    /\ ret = RetErr(UpdateErr)

\* C8: a pass that read management state Removed never goes past shouldSync; it
\* calls the namespace delete once, calls neither PreconditionFulfilled nor Sync
\* nor SetVersion, makes no status write, and returns nil when the delete
\* succeeded or reported not-found and the delete error otherwise.
C8_RemovedDeletesNamespaceOnly ==
    managementState = "Removed"
    => /\ pc \in {"shouldSync", "done"}
       /\ calls.precondition = 0 /\ calls.sync = 0
       /\ calls.setVersion = 0 /\ calls.updateStatus = 0
       /\ updateArgs = NoUpdateArgs
       /\ pc = "shouldSync" => calls.delete = 0
       /\ pc = "done" =>
             /\ calls.delete = 1
             /\ deleteOutcome \in {"ok", "notfound", "err"}
             /\ deleteOutcome \in {"ok", "notfound"} => ret = RetNil
             /\ deleteOutcome = "err" => ret = RetErr(DeleteErr)

C8_Witness ==
    /\ pc = "done"
    /\ managementState = "Removed"
    /\ deleteOutcome = "notfound"
    /\ calls.delete = 1
    /\ ret = RetNil
    /\ conditions # {}

\* C9: a pass whose read of the operator spec failed, or that read Unmanaged or
\* an unrecognized management state, ends without calling the namespace delete,
\* PreconditionFulfilled, Sync, SetVersion or the status update; it returns the
\* read error in the first case and nil in the others, and emits one warning
\* exactly when the state is unrecognized.
C9_NoEffectWhenNotManaged ==
    (managementState \notin {"Managed", "Removed"})
    => /\ pc \in {"start", "shouldSync", "done"}
       /\ calls.delete = 0 /\ calls.precondition = 0 /\ calls.sync = 0
       /\ calls.setVersion = 0 /\ calls.updateStatus = 0
       /\ updateArgs = NoUpdateArgs
       /\ pc = "shouldSync" => calls.warning = 0
       /\ (pc = "done" /\ managementState = NoState)
             => (ret = RetErr(GetStateErr) /\ calls.warning = 0)
       /\ (pc = "done" /\ managementState = "Unmanaged")
             => (ret = RetNil /\ calls.warning = 0)
       /\ (pc = "done" /\ managementState \notin {NoState, "Unmanaged"})
             => (ret = RetNil /\ calls.warning = 1)

C9_Witness ==
    /\ pc = "done"
    /\ managementState = "Force"
    /\ calls.warning = 1
    /\ ret = RetNil
    /\ conditions # {}

\* C10: the four conditions a pass hands to the status update are a function of
\* the pass's inputs alone (mode, deployment, error list, pod details): they equal
\* the table below, which does not read the stored status, so equal inputs give
\* equal conditions and no reason or message of an earlier pass is carried over.
C10_Condition(type, status, reason, message) ==
    [type |-> type, status |-> status, reason |-> reason, message |-> message]

C10_ErrorLines(es) ==
    [i \in 1..(2 * Len(es)) |-> IF i % 2 = 1 THEN es[(i + 1) \div 2] ELSE "\n"]

C10_Table(ready, w, es, ps) ==
    LET desired == IF w.replicas = Unset THEN 1 ELSE w.replicas
        missing == <<"deployment/", TargetNamespace, ": could not be retrieved">>
        details == IF ps = "err"
                   THEN <<"failed to get pod containers details: ", ListPodsErr>>
                   ELSE <<"container is waiting in pod ", WorkloadName, "-1">>
        syncErrors == IF es = << >>
                      THEN C10_Condition(WorkloadDegradedType, "False", "", << >>)
                      ELSE C10_Condition(WorkloadDegradedType, "True", "SyncError",
                                         C10_ErrorLines(es))
    IN  IF ~ready THEN
            { C10_Condition(AvailableType, "False", "PreconditionNotFulfilled", << >>),
              C10_Condition(ProgressingType, "False", "PreconditionNotFulfilled", << >>),
              C10_Condition(DegradedType, "True", "PreconditionNotFulfilled",
                            IF es = << >> THEN FallbackMessage ELSE C10_ErrorLines(es)),
              C10_Condition(WorkloadDegradedType, "False", "", << >>) }
        ELSE IF ~w.present THEN
            { C10_Condition(AvailableType, "False", "NoDeployment", missing),
              C10_Condition(ProgressingType, "True", "NoDeployment", missing),
              C10_Condition(DegradedType, "True", "NoDeployment", missing),
              syncErrors }
        ELSE
            { IF w.availableReplicas > 0
              THEN C10_Condition(AvailableType, "True", "AsExpected", << >>)
              ELSE C10_Condition(AvailableType, "False", "NoPod",
                       <<"no ", WorkloadName, ".", TargetNamespace,
                         " pods available on any node.">>),
              IF w.generation = w.observedGeneration
              THEN C10_Condition(ProgressingType, "False", "AsExpected", << >>)
              ELSE C10_Condition(ProgressingType, "True", "NewGeneration",
                       <<"deployment/", WorkloadName, ".", TargetNamespace,
                         ": observed generation is ", ToString(w.observedGeneration),
                         ", desired generation is ", ToString(w.generation), ".">>),
              IF w.availableReplicas >= desired
              THEN C10_Condition(DegradedType, "False", "AsExpected", << >>)
              ELSE C10_Condition(DegradedType, "True", "UnavailablePod",
                       <<ToString(desired - w.availableReplicas), " of ", ToString(desired),
                         " requested instances are unavailable for ",
                         WorkloadName, ".", TargetNamespace, " (">> \o details \o <<")">>),
              syncErrors }

C10_ConditionsDependOnInputsOnly ==
    pc = "updateStatus"
    => updateArgs.conds = C10_Table(preconditionsReady, workload, errs, podStatus)

C10_Witness ==
    /\ pc = "updateStatus"
    /\ \E c \in conditions :
          c.type = AvailableType /\ c.reason = "NoPod" /\ c.message # << >>
    /\ \E c \in conditions :
          c.type = WorkloadDegradedType /\ c.reason = "SyncError"
    /\ Written(AvailableType) = C10_Condition(AvailableType, "True", "AsExpected", << >>)
    /\ Written(WorkloadDegradedType) =
          C10_Condition(WorkloadDegradedType, "False", "", << >>)

\* C15: sync errors do not short-circuit the evaluation. In normal mode the
\* WorkloadDegraded condition handed to the status update is True/SyncError
\* exactly when the delegate's error list is non-empty, the other three
\* conditions are those derived for the same deployment with an empty error
\* list, and a pass whose status write succeeded returns nil exactly when the
\* error list is empty and the aggregate of the listed errors otherwise.
C15_SyncErrorsDoNotShortCircuit ==
    /\ (pc = "updateStatus" /\ preconditionsReady) =>
          /\ HasWritten(WorkloadDegradedType)
          /\ (Len(errs) > 0) <=> (/\ Written(WorkloadDegradedType).status = "True"
                                  /\ Written(WorkloadDegradedType).reason = "SyncError")
          /\ (Len(errs) = 0) <=> (Written(WorkloadDegradedType).status = "False")
          /\ { c \in updateArgs.conds : c.type # WorkloadDegradedType }
                = { c \in C10_Table(TRUE, workload, << >>, podStatus) :
                       c.type # WorkloadDegradedType }
    /\ (pc = "done" /\ preconditionsReady /\ updateOutcome = "ok") =>
          /\ (ret = RetNil) <=> (Len(errs) = 0)
          /\ Len(errs) > 0 => ret = RetAggregate(errs)

C15_Witness ==
    /\ pc = "done"
    /\ preconditionsReady
    /\ updateOutcome = "ok"
    /\ Len(errs) > 0
    /\ ret = RetAggregate(errs)
    /\ updateArgs.generation # 0
    /\ Written(WorkloadDegradedType).reason = "SyncError"
    /\ Written(AvailableType).status = "True"
    /\ Written(DegradedType).status = "False"
    /\ Written(ProgressingType).status = "False"
    /\ updateArgs.conds \subseteq conditions

\* C16: in normal mode with a deployment present, Progressing is
\* True/NewGeneration exactly when generation # observedGeneration and
\* False/AsExpected otherwise, whatever the replica counts, and the status of
\* Degraded is decided by availableReplicas and desiredReplicas alone, whatever
\* the generations.
C16_DegradedAndProgressingIndependent ==
    NormalModePresent =>
        LET desired == IF workload.replicas = Unset THEN 1 ELSE workload.replicas
            p == Written(ProgressingType)
            d == Written(DegradedType)
        IN  /\ HasWritten(ProgressingType) /\ HasWritten(DegradedType)
            /\ (workload.generation # workload.observedGeneration)
                  <=> (p.status = "True" /\ p.reason = "NewGeneration")
            /\ (workload.generation = workload.observedGeneration)
                  <=> (p.status = "False" /\ p.reason = "AsExpected")
            /\ (d.status = "True") <=> (workload.availableReplicas < desired)
            /\ (d.status = "False") <=> (workload.availableReplicas >= desired)

\* A pass stored Progressing=True with Degraded=False (a surging rollout), and the
\* pass now under way reports Degraded=True with Progressing=False.
C16_Witness ==
    /\ NormalModePresent
    /\ \E c \in conditions : c.type = ProgressingType /\ c.reason = "NewGeneration"
    /\ \E c \in conditions : c.type = DegradedType /\ c.reason = "AsExpected"
    /\ Written(DegradedType).status = "True"
    /\ Written(ProgressingType).status = "False"
    /\ workload.generation = workload.observedGeneration

\* C17: in normal mode with a deployment present, Available is True/AsExpected
\* exactly when availableReplicas > 0 and False/NoPod otherwise, whatever
\* desiredReplicas and the generations are: scaled to 0 with no replica available
\* it is False next to Degraded=False, and with 1 of 3 available it is True next
\* to Degraded=True.
C17_AvailableIffAnyReplica ==
    NormalModePresent =>
        LET a == Written(AvailableType)
            d == Written(DegradedType)
        IN  /\ HasWritten(AvailableType)
            /\ (workload.availableReplicas > 0)
                  <=> (a.status = "True" /\ a.reason = "AsExpected")
            /\ (workload.availableReplicas = 0)
                  <=> (a.status = "False" /\ a.reason = "NoPod")
            /\ (workload.replicas = 0 /\ workload.availableReplicas = 0)
                  => (a.status = "False" /\ d.status = "False")
            /\ (workload.replicas = 3 /\ workload.availableReplicas = 1)
                  => (a.status = "True" /\ d.status = "True")

\* A pass stored Available=False with Degraded=False (scaled to 0), and the pass
\* now under way reports 1 of 3 replicas: Available=True with Degraded=True.
C17_Witness ==
    /\ NormalModePresent
    /\ workload.replicas = 3
    /\ workload.availableReplicas = 1
    /\ Written(AvailableType).status = "True"
    /\ Written(DegradedType).status = "True"
    /\ \E c \in conditions : c.type = AvailableType /\ c.reason = "NoPod"
    /\ \E c \in conditions : c.type = DegradedType /\ c.reason = "AsExpected"

\* C18: the version is set whatever the delegate's error list and before the
\* status update is attempted: when a normal-mode pass's four gate conditions
\* hold, SetVersion has been called once the pass reaches the UpdateStatus call,
\* with or without sync errors, and the version stays set when that call fails
\* and the pass returns the update error.
C18_VersionSetBeforeStatusWrite ==
    /\ NormalModePresent =>
          LET desired == IF workload.replicas = Unset THEN 1 ELSE workload.replicas
          IN  (/\ workload.generation = workload.observedGeneration
               /\ workload.availableReplicas >= desired
               /\ workload.updatedReplicas = desired
               /\ operatorConfigAtHighestGeneration)
              => /\ calls.setVersion = 1
                 /\ calls.updateStatus = 0
                 /\ version = TargetOperandVersion
    /\ (pc = "done" /\ calls.setVersion = 1) =>
          /\ version = TargetOperandVersion
          /\ updateOutcome = "err" => ret = RetErr(UpdateErr)
          /\ (updateOutcome = "ok" /\ Len(errs) > 0) => ret = RetAggregate(errs)

\* The pass set the version, had sync errors, and its status update failed: the
\* version is the new one, the stored conditions are those of an earlier pass.
C18_Witness ==
    /\ pc = "done"
    /\ calls.setVersion = 1
    /\ version = TargetOperandVersion
    /\ Len(errs) > 0
    /\ updateOutcome = "err"
    /\ ret = RetErr(UpdateErr)
    /\ \E c \in conditions : c.type = DegradedType /\ c.reason = "NoDeployment"
    /\ updateArgs.conds \cap conditions = {}

\* C12: for a non-empty component and a selector with non-empty match-labels,
\* whatever the template's labels and affinity were, the call returns nil, the
\* pod template carries <component>-anti-affinity = "true", and the affinity holds
\* exactly one required anti-affinity term, with topology key
\* kubernetes.io/hostname and match-labels {<component>-anti-affinity: "true"}
\* united with the selector's match-labels.
C12_AntiAffinityInstalled ==
    (/\ aaPc \in {"returned", "panicked"}
     /\ Len(aaComponent) > 0
     /\ ~aaGiven.selector.isNil
     /\ aaGiven.selector.matchLabels.entries # {})
    => /\ aaRet = "nil"
       /\ <<aaComponent \o <<"-anti-affinity">>, "true">> \in aaSpec.templateLabels.entries
       /\ Len(aaSpec.affinity.required) = 1
       /\ aaSpec.affinity.required[1].topologyKey = "kubernetes.io/hostname"
       /\ aaSpec.affinity.required[1].matchLabels
             = { <<aaComponent \o <<"-anti-affinity">>, "true">> }
               \cup aaGiven.selector.matchLabels.entries

\* C13: the call returns an error, and installs no anti-affinity term, exactly
\* when the component name is empty, the spec has no selector, or the selector
\* has no match-labels.
C13_ErrorInExactlyThreeCases ==
    aaPc \in {"returned", "panicked"}
    => ( (aaRet \in AffinityErrors /\ aaSpec.affinity = aaGiven.affinity)
         <=> \/ Len(aaComponent) = 0
             \/ aaGiven.selector.isNil
             \/ aaGiven.selector.matchLabels.entries = {} )

\* C19: whenever the call returns an error, the deployment spec is as it was
\* given: no label added to the pod template, the affinity untouched.
C19_ErrorLeavesSpecUnchanged ==
    (aaPc = "returned" /\ aaRet \in AffinityErrors) => aaSpec = aaGiven

\* C14: every call of the counting function lists the nodes as they are at the
\* call and hands back, with no error, the number of nodes listed (0, present
\* and not an error, when none matches), or the lister's error with no count;
\* what an earlier call returned has no part in it.
C14_CountIsNumberListed ==
    [][ /\ (cnPc # "listed" /\ cnPc' = "listed")
           => \/ cnListed' = [items |-> { n \in nodes : cnSelector' \subseteq n.labels },
                              err |-> Nil]
              \/ cnListed' = [items |-> {}, err |-> ListNodesErr]
        /\ (cnPc = "listed" /\ cnPc' = "returned")
           => IF cnListed.err = Nil
              THEN /\ cnRet'.hasCount
                   /\ cnRet'.count = Cardinality(cnListed.items)
                   /\ cnRet'.err = Nil
              ELSE /\ ~cnRet'.hasCount
                   /\ cnRet'.err = cnListed.err ]_vars

\* A call that found no matching node while nodes exist, made after a call that
\* had counted some.
C14_Witness ==
    /\ cnPc = "returned"
    /\ nodes # {}
    /\ cnListed = [items |-> {}, err |-> Nil]
    /\ cnRet = [hasCount |-> TRUE, count |-> 0, err |-> Nil]

\* C11: whatever the interleaving of passes and readers, a status document a
\* reader has observed is either the empty one no pass has written yet, or
\* holds all four conditions, every one written by the same pass.
C11_ReaderSeesOnePassOnly ==
    cObserved # {}
    => \E p \in Passes :
          /\ \A c \in cObserved : c.writer = p
          /\ { c.type : c \in cObserved } = ConditionTypes
          /\ Cardinality(cObserved) = 4

\* Two passes in flight at once; the reader saw the write of one of them and the
\* other has overwritten it since.
C11_Witness ==
    /\ cObserved # {}
    /\ cStore # {}
    /\ \E c \in cObserved, d \in cStore : c.writer # d.writer
    /\ \A p \in Passes : cPc[p] = "done"

StoredAs(type, status) == \E c \in conditions : c.type = type /\ c.status = status

Converged ==
    /\ StoredAs(AvailableType, "True")
    /\ StoredAs(DegradedType, "False")
    /\ StoredAs(ProgressingType, "False")
    /\ StoredAs(WorkloadDegradedType, "False")
    /\ \A c \in conditions : \A d \in conditions : c.type = d.type => c = d
    /\ version = TargetOperandVersion

\* C20: with passes triggered one at a time, Managed, preconditions fulfilled and
\* status writes succeeding, once the delegate only returns rolled-out
\* deployments without errors the stored status becomes Available=True,
\* Degraded=False, Progressing=False, WorkloadDegraded=False with the operand
\* version recorded, and stays so.
C20_Convergence == settled ~> []Converged

\* A pass made after the deployment settled has ended with the status converged.
C20_Witness ==
    /\ settled
    /\ pc = "done"
    /\ calls.sync = 1
    /\ calls.setVersion = 1
    /\ Converged

====
